---- MODULE Spec2Model ----
(***************************************************************************)
(* Tracker service (server.js): the request validator of the two submit   *)
(* endpoints, the request lifecycle driven by deliveries and moderator    *)
(* updates, the delivery ledger and the WebSocket connection registry.    *)
(***************************************************************************)
EXTENDS Integers, Sequences, FiniteSets, TLC

(***************************************************************************)
(* Strings.  A JavaScript string is modelled by its sequence of           *)
(* characters so that String.replace and String.toLowerCase are computed  *)
(* and not assumed.  Chars gives the characters of every string literal   *)
(* the validator handles.                                                 *)
(***************************************************************************)
Chars ==
       "numberTo" :> <<"n", "u", "m", "b", "e", "r", "T", "o">>
    @@ "imeiToNumber" :> <<"i", "m", "e", "i", "T", "o", "N", "u", "m", "b", "e", "r">>
    @@ "numberToLocation" :> <<"n", "u", "m", "b", "e", "r", "T", "o", "L", "o", "c", "a", "t", "i", "o", "n">>
    @@ "numberToNID" :> <<"n", "u", "m", "b", "e", "r", "T", "o", "N", "I", "D">>
    @@ "numberToCallList3Months" :> <<"n", "u", "m", "b", "e", "r", "T", "o", "C", "a", "l", "l", "L", "i", "s", "t", "3", "M", "o", "n", "t", "h", "s">>
    @@ "numberToCallList6Months" :> <<"n", "u", "m", "b", "e", "r", "T", "o", "C", "a", "l", "l", "L", "i", "s", "t", "6", "M", "o", "n", "t", "h", "s">>
    @@ "numberToNid" :> <<"n", "u", "m", "b", "e", "r", "T", "o", "N", "i", "d">>
    @@ "number" :> <<"n", "u", "m", "b", "e", "r">>
    @@ "location" :> <<"l", "o", "c", "a", "t", "i", "o", "n">>
    @@ "nid" :> <<"n", "i", "d">>
    @@ "callList3Months" :> <<"c", "a", "l", "l", "L", "i", "s", "t", "3", "M", "o", "n", "t", "h", "s">>
    @@ "callList6Months" :> <<"c", "a", "l", "l", "L", "i", "s", "t", "6", "M", "o", "n", "t", "h", "s">>
    @@ "NID" :> <<"N", "I", "D">>
    @@ "numberToNumber" :> <<"n", "u", "m", "b", "e", "r", "T", "o", "N", "u", "m", "b", "e", "r">>

\* String.prototype.toLowerCase on one character: only the capitals that occur.
LowerChar(c) ==
    LET up == "C" :> "c" @@ "D" :> "d" @@ "I" :> "i" @@ "L" :> "l" @@ "M" :> "m" @@ "N" :> "n" @@ "T" :> "t"
    IN  IF c \in DOMAIN up THEN up[c] ELSE c

toLowerCase(cs) == [i \in 1..Len(cs) |-> LowerChar(cs[i])]

\* Index of the first occurrence of pat in cs, 0 when there is none.
indexOf(cs, pat) ==
    LET hits == {i \in 1..(Len(cs) - Len(pat) + 1) :
                    \A j \in 1..Len(pat) : cs[i + j - 1] = pat[j]}
    IN  IF hits = {} THEN 0 ELSE CHOOSE i \in hits : \A k \in hits : i <= k

\* String.prototype.replace(pat, rep) with a string pattern: first occurrence only.
replace(cs, pat, rep) ==
    LET at == indexOf(cs, pat)
    IN  IF at = 0 THEN cs
        ELSE SubSeq(cs, 1, at - 1) \o rep \o SubSeq(cs, at + Len(pat), Len(cs))

(***************************************************************************)
(* Bounds of the model.                                                   *)
(***************************************************************************)
MaxServiceTypes == 2
MaxDataNeeded == 2
MaxRequests == 1
MaxLedger == 3
MaxChannels == 2
MaxSockets == 3

(***************************************************************************)
(* Values.                                                                *)
(***************************************************************************)
\* a body field that is present but is not an array
NotArray == <<"not an array">>
NoRequest == [status |-> "none"]
NoResponse == [code |-> 0, message |-> "none"]

Users == {"u1", "u2"}
Moderators == {"m1"}

ServiceKeys ==
    {"imeiToNumber", "numberToLocation", "numberToNID",
     "numberToCallList3Months", "numberToCallList6Months", "numberToNid"}
DataCategories == {"number", "location", "nid", "callList3Months", "callList6Months"}
\* the service keys the order form can build beside those
FormServiceKeys == {"numberToNumber"}

SeqsUpTo(S, n) == UNION {[1..k -> S] : k \in 0..n}

RECURSIVE Sum(_)
Sum(ns) == IF ns = <<>> THEN 0 ELSE ns[1] + Sum(Tail(ns))

Range(f) == {f[x] : x \in DOMAIN f}

(***************************************************************************)
(* Price table and request validator (both submit endpoints run the same  *)
(* checks; they differ in the model they persist).                        *)
(***************************************************************************)
servicePrices ==
    [imeiToNumber |-> 1500,
     numberToLocation |-> 1000,
     numberToNID |-> 800,
     numberToCallList3Months |-> 2000,
     numberToCallList6Months |-> 3000]

\* servicePrices[service]: undefined (falsy) for a key the table does not hold
priceOf(service) ==
    IF service \in DOMAIN servicePrices THEN servicePrices[service] ELSE 0

validDataNeededForPhoneNumber ==
    <<"location", "nid", "callList3Months", "callList6Months">>

\* Array.prototype.includes of a computed string in a list of literals
includes(list, cs) == \E i \in 1..Len(list) : Chars[list[i]] = cs

\* service.replace('numberTo', '').toLowerCase()
dataKey ==
    [service \in ServiceKeys \cup FormServiceKeys |->
        toLowerCase(replace(Chars[service], Chars["numberTo"], <<>>))]

\* validDataNeededForPhoneNumber.includes(dataKey), for every key
validDataKey ==
    [service \in ServiceKeys \cup FormServiceKeys |->
        includes(validDataNeededForPhoneNumber, dataKey[service])]

Reject(code, message) == [code |-> code, message |-> message]

IsArray(x) == x # NotArray

\* The for-loop over serviceTypes: returns the first rejection, or the charge
\* accumulated over the entries.  skipBase is TRUE in the imei branch, where
\* imeiToNumber entries are skipped (continue).
RECURSIVE serviceLoop(_, _, _, _)
serviceLoop(serviceTypes, i, expectedTotalCharge, skipBase) ==
    IF i > Len(serviceTypes) THEN [ok |-> TRUE, charge |-> expectedTotalCharge]
    ELSE LET service == serviceTypes[i] IN
         IF skipBase /\ service = "imeiToNumber"
         THEN serviceLoop(serviceTypes, i + 1, expectedTotalCharge, skipBase)
         ELSE IF ~validDataKey[service]
         THEN [ok |-> FALSE, charge |-> 0, message |-> "Invalid service type"]
         ELSE IF priceOf(service) # 0
         THEN serviceLoop(serviceTypes, i + 1,
                          expectedTotalCharge + priceOf(service), skipBase)
         ELSE [ok |-> FALSE, charge |-> 0, message |-> "Unknown service type"]

\* expectedDataNeeded of the two branches, as character sequences
expectedDataNeededImei(serviceTypes) ==
    <<Chars["number"]>> \o
    [i \in 1..Len(SelectSeq(serviceTypes, LAMBDA s : s # "imeiToNumber")) |->
        dataKey[SelectSeq(serviceTypes, LAMBDA s : s # "imeiToNumber")[i]]]

expectedDataNeededPhone(serviceTypes) ==
    [i \in 1..Len(serviceTypes) |-> dataKey[serviceTypes[i]]]

\* dataNeeded.length !== expected.length || !dataNeeded.every(d => expected.includes(d))
dataNeededMismatch(dataNeeded, expectedDataNeeded) ==
    \/ Len(dataNeeded) # Len(expectedDataNeeded)
    \/ ~(\A k \in 1..Len(dataNeeded) :
            \E j \in 1..Len(expectedDataNeeded) :
                expectedDataNeeded[j] = Chars[dataNeeded[k]])

\* expectedTotalCharge !== serviceCharge
chargeMismatch_Underpay(expectedTotalCharge, serviceCharge) ==
    expectedTotalCharge < serviceCharge

chargeMismatch(expectedTotalCharge, serviceCharge) ==
    expectedTotalCharge # serviceCharge

includesBase_Always(serviceTypes) == TRUE

\* serviceTypes.includes('imeiToNumber')
includesBase(serviceTypes) ==
    \E i \in 1..Len(serviceTypes) : serviceTypes[i] = "imeiToNumber"

\* The checks of a submit handler up to the charge comparison.  The result is
\* the rejection sent, or NoResponse when the body passes and is to be saved.
validate(body) ==
    IF \/ body.sourceType = ""
       \/ ~IsArray(body.dataNeeded) \/ (IsArray(body.dataNeeded) /\ Len(body.dataNeeded) = 0)
       \/ ~IsArray(body.serviceTypes) \/ (IsArray(body.serviceTypes) /\ Len(body.serviceTypes) = 0)
       \/ body.serviceCharge = 0
       \/ body.paymentMethod = ""
       \/ body.trxId = <<>>
    THEN Reject(400, "Missing required fields or invalid array format")
    ELSE IF body.sourceType = "imei"
    THEN IF body.imei = ""
         THEN Reject(400, "IMEI is required for IMEI tracking")
         ELSE IF ~includesBase(body.serviceTypes)
         THEN Reject(400, "IMEI tracking must include imeiToNumber service")
         ELSE LET loop == serviceLoop(body.serviceTypes, 1, servicePrices.imeiToNumber, TRUE) IN
              IF ~loop.ok THEN Reject(400, loop.message)
              ELSE IF dataNeededMismatch(body.dataNeeded, expectedDataNeededImei(body.serviceTypes))
              THEN Reject(400, "Data needed mismatch")
              ELSE IF chargeMismatch(loop.charge, body.serviceCharge)
              THEN Reject(400, "Service charge mismatch")
              ELSE NoResponse
    ELSE IF body.sourceType = "phoneNumber"
    THEN IF body.phoneNumber = ""
         THEN Reject(400, "Phone number is required for phone number tracking")
         ELSE LET loop == serviceLoop(body.serviceTypes, 1, 0, FALSE) IN
              IF ~loop.ok THEN Reject(400, loop.message)
              ELSE IF dataNeededMismatch(body.dataNeeded, expectedDataNeededPhone(body.serviceTypes))
              THEN Reject(400, "Data needed mismatch")
              ELSE IF chargeMismatch(loop.charge, body.serviceCharge)
              THEN Reject(400, "Service charge mismatch")
              ELSE NoResponse
    ELSE Reject(400, "Invalid source type")

(***************************************************************************)
(* State.                                                                 *)
(*   requests           the stored request documents, by id               *)
(*   nextId             the id the next created document gets             *)
(*   ledger             the DeliveredData collection, in insertion order  *)
(*   response           the HTTP response of the last handled call        *)
(*   handlers           deliver handlers in flight (interleaved handling) *)
(*   channels           the WebSocket objects of the server               *)
(*   activeConnections  the registry: user id -> channel                  *)
(*   sent               frames the server pushed on each channel          *)
(*   clients            the two frontends: session, sockets, timers       *)
(*   listening          the port: bind attempts and the server holding it *)
(***************************************************************************)
VARIABLES requests, nextId, ledger, response, handlers, channels,
          activeConnections, sent, clients, listening

vars == <<requests, nextId, ledger, response, handlers, channels,
          activeConnections, sent, clients, listening>>

RequestIds == 1..MaxRequests
Channels == 1..MaxChannels
HandlerIds == {1, 2}

IdleHandler == [pc |-> "idle"]
NewChannel == [state |-> "none", userId |-> "", closeCode |-> 0]

\* the dashboard of a user (part_000) and the moderator panel (moderator.js)
Frontends == {"dashboard", "moderator"}
SocketIds == 1..MaxSockets
\* a frontend before its page has a session: no WebSocket was constructed, no
\* timer is pending, no fetch of the request list is in flight
NewClient ==
    [authenticated |-> FALSE, ws |-> 0, sockets |-> [k \in SocketIds |-> "none"],
     timers |-> 0, fetching |-> FALSE]
\* the process after const server = http.createServer(app) and
\* new WebSocketServer({ server }): nothing listens yet
NotListening == [pc |-> "start", owner |-> "none", attempts |-> 0, errors |-> 0]

Init ==
    /\ requests = [id \in RequestIds |-> NoRequest]
    /\ nextId = 1
    /\ ledger = <<>>
    /\ response = NoResponse
    /\ handlers = [h \in HandlerIds |-> IdleHandler]
    /\ channels = [c \in Channels |-> NewChannel]
    /\ activeConnections = [u \in {} |-> 0]
    /\ sent = [c \in Channels |-> <<>>]
    /\ clients = [f \in Frontends |-> NewClient]
    /\ listening = NotListening

(***************************************************************************)
(* Persistence of a submission.                                           *)
(***************************************************************************)
trackerRequestSchemaValid_NoMinLength(doc) ==
    /\ doc.sourceType \in {"imei", "phoneNumber"}
    /\ \A i \in 1..Len(doc.dataNeeded) : doc.dataNeeded[i] \in DataCategories
    /\ \A i \in 1..Len(doc.serviceTypes) :
          doc.serviceTypes[i] \in DOMAIN servicePrices
    /\ doc.serviceCharge >= 0
    /\ doc.paymentMethod \in {"Crypto", "Nagad"}

\* Schema validation that document.save() runs before the insert.
trackerRequestSchemaValid(doc) ==
    /\ doc.sourceType \in {"imei", "phoneNumber"}
    /\ \A i \in 1..Len(doc.dataNeeded) : doc.dataNeeded[i] \in DataCategories
    /\ \A i \in 1..Len(doc.serviceTypes) :
          doc.serviceTypes[i] \in DOMAIN servicePrices
    /\ doc.serviceCharge >= 0
    /\ doc.paymentMethod \in {"Crypto", "Nagad"}
    /\ Len(doc.trxId) >= 8

\* The schema of LocationTrackerServiceRequest (models/LocationTrackerServiceRequest.js).
locationTrackerSchemaValid(doc) ==
    /\ doc.sourceType \in {"imei", "phoneNumber"}
    /\ \A i \in 1..Len(doc.dataNeeded) : doc.dataNeeded[i] \in DataCategories
    /\ Len(doc.trxId) >= 8

schemaValid(coll, doc) ==
    IF coll = "TrackerRequest" THEN trackerRequestSchemaValid(doc)
    ELSE locationTrackerSchemaValid(doc)

\* error.message of the ValidationError that save() throws; of the failing
\* paths the message names, only trxId is kept
validationMessage(doc) ==
    IF Len(doc.trxId) < 8 THEN "validation failed: trxId" ELSE "validation failed"

newRequest_BodyStatus(coll, user, body) ==
    [coll |-> coll,
     user |-> user,
     sourceType |-> body.sourceType,
     dataNeeded |-> body.dataNeeded,
     serviceTypes |-> body.serviceTypes,
     imei |-> body.imei,
     phoneNumber |-> body.phoneNumber,
     serviceCharge |-> body.serviceCharge,
     paymentMethod |-> body.paymentMethod,
     trxId |-> body.trxId,
     status |-> IF body.status # "" THEN body.status ELSE "Pending",
     moderatorNotes |-> body.moderatorNotes]

\* new Model({...}) of a submit handler: status is the literal 'Pending', and
\* moderatorNotes is not taken from the body
newRequest(coll, user, body) ==
    [coll |-> coll,
     user |-> user,
     sourceType |-> body.sourceType,
     dataNeeded |-> body.dataNeeded,
     serviceTypes |-> body.serviceTypes,
     imei |-> body.imei,
     phoneNumber |-> body.phoneNumber,
     serviceCharge |-> body.serviceCharge,
     paymentMethod |-> body.paymentMethod,
     trxId |-> body.trxId,
     status |-> "Pending",
     moderatorNotes |-> ""]

\* A submit handler after authMiddleware has set req.user = user.
submit(coll, user, body) ==
    /\ nextId <= MaxRequests
    /\ LET rejection == validate(body)
           doc == newRequest(coll, user, body)
       IN  IF rejection # NoResponse
           THEN /\ response' = rejection
                /\ UNCHANGED <<requests, nextId>>
           ELSE IF schemaValid(coll, doc)
           THEN /\ requests' = [requests EXCEPT ![nextId] = doc]
                /\ nextId' = nextId + 1
                /\ response' = [code |-> 201, message |-> "submitted"]
           ELSE /\ response' = Reject(500, validationMessage(doc))
                /\ UNCHANGED <<requests, nextId>>
    /\ UNCHANGED <<ledger, handlers, channels, activeConnections, sent, clients, listening>>

\* POST /tracker/submit-request
SubmitRequest(user, body) == submit("TrackerRequest", user, body)

\* POST /api/location-tracker/submit-service
SubmitService(user, body) == submit("LocationTrackerServiceRequest", user, body)

\* The client takes the response of its call before it issues the next one.
ClientReceive ==
    /\ response # NoResponse
    /\ response' = NoResponse
    /\ UNCHANGED <<requests, nextId, ledger, handlers, channels, activeConnections, sent, clients, listening>>

(***************************************************************************)
(* Moderator routes on LocationTrackerServiceRequest.                     *)
(***************************************************************************)
\* LocationTrackerServiceRequest.findById: the submit-request endpoint stores
\* into another collection, whose documents this model never finds.
findById(requestId) ==
    IF /\ requestId \in RequestIds
       /\ requests[requestId] # NoRequest
       /\ requests[requestId].coll = "LocationTrackerServiceRequest"
    THEN requests[requestId]
    ELSE NoRequest

deliveredDataTypes_BeforeSave(led, requestId) ==
    {led[i].dataType : i \in {j \in 1..(Len(led) - 1) : led[j].requestId = requestId}}

\* DeliveredData.find({ requestId }).map(d => d.dataType), on a given ledger
deliveredDataTypes(led, requestId) ==
    {led[i].dataType : i \in {j \in 1..Len(led) : led[j].requestId = requestId}}

allDataNeededDelivered_Some(request, types) ==
    \E k \in 1..Len(request.dataNeeded) : request.dataNeeded[k] \in types

\* request.dataNeeded.every(type => deliveredDataTypes.includes(type))
allDataNeededDelivered(request, types) ==
    \A k \in 1..Len(request.dataNeeded) : request.dataNeeded[k] \in types

statusAfterDelivery_NoApprove(request, types) ==
    IF allDataNeededDelivered(request, types) THEN "Completed"
    ELSE request.status

\* The status the deliver handler leaves in its copy of the request.
statusAfterDelivery(request, types) ==
    IF allDataNeededDelivered(request, types) THEN "Completed"
    ELSE IF request.status = "Pending" THEN "Approved"
    ELSE request.status

newDeliveredData_NoIdentity(requestId, dataType, moderator) ==
    [requestId |-> requestId, dataType |-> dataType, deliveredBy |-> ""]

\* new DeliveredData({requestId, dataType, dataContent, deliveredBy: req.admin._id});
\* the content is not kept in the model
newDeliveredData(requestId, dataType, moderator) ==
    [requestId |-> requestId, dataType |-> dataType, deliveredBy |-> moderator]

\* POST /admin/deliver-data, handled without interleaving (adminAuthMiddleware
\* has set req.admin = moderator).
DeliverData(moderator, requestId, dataType, dataContent) ==
    /\ Len(ledger) < MaxLedger
    /\ IF requestId = 0 \/ dataType = "" \/ dataContent = ""
       THEN /\ response' = Reject(400, "Missing required fields")
            /\ UNCHANGED <<requests, ledger>>
       ELSE IF findById(requestId) = NoRequest
       THEN /\ response' = Reject(404, "Location tracker service request not found")
            /\ UNCHANGED <<requests, ledger>>
       ELSE LET request == findById(requestId)
                led == Append(ledger, newDeliveredData(requestId, dataType, moderator))
            IN  /\ ledger' = led
                /\ requests' = [requests EXCEPT ![requestId].status =
                        statusAfterDelivery(request, deliveredDataTypes(led, requestId))]
                /\ response' = [code |-> 201, message |-> "Data delivered"]
    /\ UNCHANGED <<nextId, handlers, channels, activeConnections, sent, clients, listening>>

validStatuses_NoCompleted == {"Pending", "Approved", "Rejected"}

validStatuses == {"Pending", "Approved", "Rejected", "Completed"}

UpdateStatus_Replace(requestId, status, moderatorNotes) ==
    /\ IF status \notin validStatuses
       THEN /\ response' = Reject(400, "Invalid status provided")
            /\ UNCHANGED requests
       ELSE IF findById(requestId) = NoRequest
       THEN /\ response' = Reject(404, "Tracker request not found")
            /\ UNCHANGED requests
       ELSE /\ requests' = [requests EXCEPT ![requestId].status = status,
                                            ![requestId].moderatorNotes = moderatorNotes,
                                            ![requestId].serviceCharge = 0,
                                            ![requestId].trxId = <<>>]
            /\ response' = [code |-> 200, message |-> "updated"]
    /\ UNCHANGED <<nextId, ledger, handlers, channels, activeConnections, sent, clients, listening>>

\* PUT /admin/tracker/requests/:id/status
UpdateStatus(requestId, status, moderatorNotes) ==
    /\ IF status \notin validStatuses
       THEN /\ response' = Reject(400, "Invalid status provided")
            /\ UNCHANGED requests
       ELSE IF findById(requestId) = NoRequest
       THEN /\ response' = Reject(404, "Tracker request not found")
            /\ UNCHANGED requests
       ELSE /\ requests' = [requests EXCEPT ![requestId].status = status,
                                            ![requestId].moderatorNotes = moderatorNotes]
            /\ response' = [code |-> 200, message |-> "updated"]
    /\ UNCHANGED <<nextId, ledger, handlers, channels, activeConnections, sent, clients, listening>>

DeleteRequest_Cascade(requestId) ==
    /\ IF findById(requestId) = NoRequest
       THEN /\ response' = Reject(404, "Tracker request not found")
            /\ UNCHANGED <<requests, ledger>>
       ELSE /\ requests' = [requests EXCEPT ![requestId] = NoRequest]
            /\ ledger' = SelectSeq(ledger, LAMBDA d : d.requestId # requestId)
            /\ response' = [code |-> 200, message |-> "deleted"]
    /\ UNCHANGED <<nextId, handlers, channels, activeConnections, sent, clients, listening>>

\* DELETE /admin/tracker/requests/:id
DeleteRequest(requestId) ==
    /\ IF findById(requestId) = NoRequest
       THEN /\ response' = Reject(404, "Tracker request not found")
            /\ UNCHANGED requests
       ELSE /\ requests' = [requests EXCEPT ![requestId] = NoRequest]
            /\ response' = [code |-> 200, message |-> "deleted"]
    /\ UNCHANGED <<nextId, ledger, handlers, channels, activeConnections, sent, clients, listening>>

\* GET /api/location-tracker/delivered-data/:requestId
\* DeliveredData.find({ requestId }): the request itself is not looked up
GetDeliveredData(requestId) ==
    /\ response' = [code |-> 200, message |-> "delivered data",
                    deliveredData |-> SelectSeq(ledger, LAMBDA d : d.requestId = requestId)]
    /\ UNCHANGED <<requests, nextId, ledger, handlers, channels, activeConnections, sent, clients, listening>>

(***************************************************************************)
(* POST /admin/deliver-data as the event loop runs it: every await is a   *)
(* point where another handler may run.                                   *)
(***************************************************************************)
\* validation and await findById
DeliverFindRequest(h, moderator, requestId, dataType) ==
    /\ handlers[h].pc = "idle"
    /\ Len(ledger) + Cardinality({k \in HandlerIds : handlers[k].pc = "found"}) < MaxLedger
    /\ IF findById(requestId) = NoRequest
       THEN /\ response' = Reject(404, "Location tracker service request not found")
            /\ UNCHANGED handlers
       ELSE /\ handlers' = [handlers EXCEPT ![h] =
                  [pc |-> "found", requestId |-> requestId, dataType |-> dataType,
                   deliveredBy |-> moderator, request |-> findById(requestId),
                   types |-> {}]]
            /\ UNCHANGED response
    /\ UNCHANGED <<requests, nextId, ledger, channels, activeConnections, sent, clients, listening>>

\* await deliveredData.save()
DeliverSaveData(h) ==
    /\ handlers[h].pc = "found"
    /\ ledger' = Append(ledger, newDeliveredData(handlers[h].requestId,
                                                  handlers[h].dataType,
                                                  handlers[h].deliveredBy))
    /\ handlers' = [handlers EXCEPT ![h].pc = "appended"]
    /\ UNCHANGED <<requests, nextId, response, channels, activeConnections, sent, clients, listening>>

\* await DeliveredData.find({ requestId })
DeliverFindData(h) ==
    /\ handlers[h].pc = "appended"
    /\ handlers' = [handlers EXCEPT ![h].pc = "read",
                       ![h].types = deliveredDataTypes(ledger, handlers[h].requestId)]
    /\ UNCHANGED <<requests, nextId, ledger, response, channels, activeConnections, sent, clients, listening>>

\* the status assignment and await request.save(): save() writes the paths the
\* handler changed in its copy, here at most status.
DeliverSaveRequest(h) ==
    /\ handlers[h].pc = "read"
    /\ LET request == handlers[h].request
           status == statusAfterDelivery(request, handlers[h].types)
       IN  requests' = IF status # request.status
                       THEN [requests EXCEPT ![handlers[h].requestId].status = status]
                       ELSE requests
    /\ response' = [code |-> 201, message |-> "Data delivered"]
    /\ handlers' = [handlers EXCEPT ![h] = IdleHandler]
    /\ UNCHANGED <<nextId, ledger, channels, activeConnections, sent, clients, listening>>

(***************************************************************************)
(* WebSocket server: wss.on('connection') and the handlers of one ws.     *)
(***************************************************************************)
\* Tokens a client may present: a session token of a user, a token of a
\* moderator (it carries adminId, no userId), and one that jwt.verify rejects.
Tokens ==
    {[kind |-> "user", id |-> u] : u \in Users} \cup
    {[kind |-> "admin", id |-> m] : m \in Moderators} \cup
    {[kind |-> "invalid", id |-> ""]}

\* jwt.verify(token, secret).userId; "" stands for undefined
decodedUserId(token) == IF token.kind = "user" THEN token.id ELSE ""

\* wss.on('connection')
Connect(c) ==
    /\ channels[c].state = "none"
    /\ channels' = [channels EXCEPT ![c].state = "open"]
    /\ UNCHANGED <<requests, nextId, ledger, response, handlers, activeConnections, sent, clients, listening>>

\* Frames a client may send: text that JSON.parse rejects, a JSON message of
\* another type, and auth messages (token = NoToken or userId = "" stands for
\* an absent field).
NoToken == [kind |-> "none", id |-> ""]

Messages ==
    {[json |-> FALSE, type |-> "", token |-> NoToken, userId |-> ""],
     [json |-> TRUE, type |-> "ping", token |-> NoToken, userId |-> ""]}
    \cup {[json |-> TRUE, type |-> "auth", token |-> token, userId |-> userId] :
             token \in Tokens \cup {NoToken}, userId \in Users \cup {""}}

identityMatches_Always(decoded, userId) == TRUE

\* decoded.userId === data.userId
identityMatches(decoded, userId) == decoded = userId

\* ws.on('message'); ws.close(1008, ...) starts the closing handshake, during
\* which the socket still takes frames.
OnMessage(c, message) ==
    /\ channels[c].state \in {"open", "closing"}
    /\ IF ~message.json
       THEN UNCHANGED <<channels, activeConnections>>
       ELSE IF ~(message.type = "auth" /\ message.token # NoToken /\ message.userId # "")
       THEN UNCHANGED <<channels, activeConnections>>
       ELSE IF message.token.kind = "invalid"
       THEN /\ channels' = [channels EXCEPT ![c].state = "closing", ![c].closeCode = 1008]
            /\ UNCHANGED activeConnections
       ELSE IF identityMatches(decodedUserId(message.token), message.userId)
       THEN /\ channels' = [channels EXCEPT ![c].userId = message.userId]
            /\ activeConnections' =
                  [u \in DOMAIN activeConnections \cup {message.userId} |->
                      IF u = message.userId THEN c ELSE activeConnections[u]]
       ELSE /\ channels' = [channels EXCEPT ![c].state = "closing", ![c].closeCode = 1008]
            /\ UNCHANGED activeConnections
    /\ UNCHANGED <<requests, nextId, ledger, response, handlers, sent, clients, listening>>

\* ws.on('message') for a frame {type: 'auth', token, userId}; userId = ""
\* is a frame without userId, which the handler ignores.
AuthMessage(c, token, userId) ==
    OnMessage(c, [json |-> TRUE, type |-> "auth", token |-> token, userId |-> userId])

\* ws.on('close'): the peer closed, or the close the server started completes
Close(c) ==
    /\ channels[c].state \in {"open", "closing"}
    /\ channels' = [channels EXCEPT ![c].state = "closed"]
    /\ activeConnections' =
          IF channels[c].userId # ""
          THEN [u \in DOMAIN activeConnections \ {channels[c].userId} |-> activeConnections[u]]
          ELSE activeConnections
    /\ UNCHANGED <<requests, nextId, ledger, response, handlers, sent, clients, listening>>

(***************************************************************************)
(* Start of the process: the listen calls at the top level of server.js.  *)
(***************************************************************************)
\* app.listen(PORT, ...): express creates a new http.Server for app and calls
\* listen on it; the bind fails with EADDRINUSE when the port is held
appListen(state, server, pc) ==
    [pc |-> pc,
     owner |-> IF state.owner = "none" THEN server ELSE state.owner,
     attempts |-> state.attempts + 1,
     errors |-> IF state.owner = "none" THEN state.errors ELSE state.errors + 1]

\* app.listen(PORT, ...) after the delivered-data route
ListenFirst ==
    /\ listening.pc = "start"
    /\ listening' = appListen(listening, "app.listen#1", "routes")
    /\ UNCHANGED <<requests, nextId, ledger, response, handlers, channels,
                   activeConnections, sent, clients>>

\* app.listen(PORT, ...) at the end of the file
ListenSecond ==
    /\ listening.pc = "routes"
    /\ listening' = appListen(listening, "app.listen#2", "done")
    /\ UNCHANGED <<requests, nextId, ledger, response, handlers, channels,
                   activeConnections, sent, clients>>

(***************************************************************************)
(* The frontends' push channel: connectWebSocket of the dashboard and     *)
(* initWebSocket of the moderator panel, with the events of their sockets.*)
(***************************************************************************)
\* WebSocket.close(): starts the closing handshake of a socket that is not
\* closing or closed already
wsClose(sockets, k) ==
    IF k # 0 /\ sockets[k] \in {"connecting", "open"}
    THEN [sockets EXCEPT ![k] = "closing"]
    ELSE sockets

\* the socket the next new WebSocket(...) constructs
newSocket(sockets) ==
    CHOOSE k \in SocketIds :
        sockets[k] = "none" /\ \A j \in SocketIds : sockets[j] = "none" => k <= j

\* connectWebSocket / initWebSocket: close the socket held, construct a new one
initWebSocket(client) ==
    LET k == newSocket(client.sockets)
    IN  [client EXCEPT !.sockets = [wsClose(client.sockets, client.ws) EXCEPT ![k] = "connecting"],
                       !.ws = k]

\* logout of the moderator panel
logout(client) ==
    [client EXCEPT !.authenticated = FALSE,
                   !.sockets = wsClose(client.sockets, client.ws)]

ClientFrame ==
    UNCHANGED <<requests, nextId, ledger, response, handlers, channels,
                activeConnections, sent, listening>>

\* login() and mounted() of the moderator panel: loadData() is started and not
\* awaited; DOMContentLoaded of the dashboard: refreshPayments() is awaited
\* before connectWebSocket()
Login(f) ==
    /\ ~clients[f].authenticated
    /\ \E k \in SocketIds : clients[f].sockets[k] = "none"
    /\ clients' = [clients EXCEPT ![f] =
          [initWebSocket(clients[f]) EXCEPT !.authenticated = TRUE,
                                            !.fetching = (f = "moderator")]]
    /\ ClientFrame

\* logout() of the moderator panel (the dashboard's logout leaves the page)
Logout(f) ==
    /\ f = "moderator"
    /\ clients[f].authenticated
    /\ clients' = [clients EXCEPT ![f] = logout(clients[f])]
    /\ ClientFrame

\* ws.onopen: the auth frame is sent; nothing else happens
SocketOpen(f, k) ==
    /\ clients[f].sockets[k] = "connecting"
    /\ clients' = [clients EXCEPT ![f].sockets[k] = "open"]
    /\ ClientFrame

\* ws.onmessage with a new-service-request or service-request-updated frame:
\* the moderator panel calls loadData(), the dashboard patches its list
SocketMessage(f, k) ==
    /\ clients[f].sockets[k] = "open"
    /\ clients' = [clients EXCEPT ![f].fetching = (@ \/ f = "moderator")]
    /\ ClientFrame

\* ws.onclose, whoever closed the socket: setTimeout(initWebSocket, 3000) or
\* setTimeout(connectWebSocket, 5000)
SocketClose(f, k) ==
    /\ clients[f].sockets[k] \in {"connecting", "open", "closing"}
    /\ clients' = [clients EXCEPT ![f].sockets[k] = "closed",
                                  ![f].timers = @ + 1]
    /\ ClientFrame

\* the timer set by onclose fires
TimerFires(f) ==
    /\ clients[f].timers > 0
    /\ \E k \in SocketIds : clients[f].sockets[k] = "none"
    /\ clients' = [clients EXCEPT ![f] =
          [initWebSocket(clients[f]) EXCEPT !.timers = @ - 1]]
    /\ ClientFrame

\* the list request returns; loadData() logs the panel out on a 401
FetchReturns(f, status) ==
    /\ clients[f].fetching
    /\ clients' = [clients EXCEPT ![f] =
          IF status = 401 /\ f = "moderator"
          THEN [logout(clients[f]) EXCEPT !.fetching = FALSE]
          ELSE [clients[f] EXCEPT !.fetching = FALSE]]
    /\ ClientFrame

(***************************************************************************)
(* HTTP authentication: authMiddleware and adminAuthMiddleware in front   *)
(* of the routes.                                                         *)
(***************************************************************************)
\* The User and Admin collections: u1 is approved, u2 is registered but not
\* approved, u9 is not registered; m1 is a moderator, a2 an admin whose role is
\* neither superadmin nor moderator.
ApprovedUsers == {"u1"}
adminRole == [m1 |-> "moderator", a2 |-> "support"]

\* Authorization headers: the WebSocket tokens, an expired session token, a
\* token of a user that is not registered, a token of admin a2, and none.
HttpTokens ==
    Tokens \cup {[kind |-> "expired", id |-> "u1"],
                 [kind |-> "user", id |-> "u9"],
                 [kind |-> "admin", id |-> "a2"],
                 NoToken}

\* X-User-ID headers ("" for none)
UserIdHeaders == {"", "u1", "u2", "u9"}

\* jwt.verify(token, secret).adminId; "" stands for undefined
decodedAdminId(token) == IF token.kind = "admin" THEN token.id ELSE ""

\* authMiddleware: the response it sends, or NoResponse when it calls next()
authMiddleware(token, userID) ==
    IF token = NoToken \/ userID = ""
    THEN Reject(401, "Authentication failed: Token or User ID missing")
    ELSE IF token.kind = "expired"
    THEN Reject(401, "Authentication failed: Session expired. Please log in again.")
    ELSE IF token.kind = "invalid"
    THEN Reject(401, "Authentication failed: Invalid token.")
    ELSE IF decodedUserId(token) # userID
    THEN Reject(401, "Authentication failed: User ID mismatch")
    ELSE IF userID \notin Users \/ userID \notin ApprovedUsers
    THEN Reject(403, "Authentication failed: User not found or not approved")
    ELSE NoResponse

\* adminAuthMiddleware: jwt.verify is not in a try of its own, so a token that
\* fails verification ends in the outer catch
adminAuthMiddleware(token) ==
    IF token = NoToken
    THEN Reject(401, "Admin authentication failed: Token missing")
    ELSE IF token.kind \in {"invalid", "expired"}
    THEN Reject(500, "Admin authentication failed: Internal server error")
    ELSE IF \/ decodedAdminId(token) \notin DOMAIN adminRole
            \/ adminRole[decodedAdminId(token)] \notin {"superadmin", "moderator"}
    THEN Reject(403, "Admin authentication failed: Insufficient privileges")
    ELSE NoResponse

\* a route behind a middleware: the handler runs only when the middleware
\* calls next()
Route(rejection, handler) ==
    IF rejection # NoResponse
    THEN /\ response' = rejection
         /\ UNCHANGED <<requests, nextId, ledger, handlers, channels,
                        activeConnections, sent, clients, listening>>
    ELSE handler

\* app.post('/api/location-tracker/submit-service', authMiddleware, ...)
UserSubmitService(token, userID, body) ==
    Route(authMiddleware(token, userID), SubmitService(userID, body))

\* app.post('/admin/deliver-data', adminAuthMiddleware, ...)
AdminDeliverData(token, requestId, dataType, dataContent) ==
    Route(adminAuthMiddleware(token),
          DeliverData(decodedAdminId(token), requestId, dataType, dataContent))

\* app.put('/admin/tracker/requests/:id/status', adminAuthMiddleware, ...)
AdminUpdateStatus(token, requestId, status, moderatorNotes) ==
    Route(adminAuthMiddleware(token), UpdateStatus(requestId, status, moderatorNotes))

\* app.delete('/admin/tracker/requests/:id', adminAuthMiddleware, ...)
AdminDeleteRequest(token, requestId) ==
    Route(adminAuthMiddleware(token), DeleteRequest(requestId))

\* app.get('/api/location-tracker/delivered-data/:requestId', adminAuthMiddleware, ...)
\* the X-User-ID header the dashboard sends is not read
AdminGetDeliveredData(token, requestId) ==
    Route(adminAuthMiddleware(token), GetDeliveredData(requestId))

(***************************************************************************)
(* Specification of the validator: one client submits arbitrary bodies to *)
(* a server whose store is still empty.                                   *)
(***************************************************************************)
TrxId == <<"T", "R", "X", "1", "2", "3", "4", "5">>

SourceTypes == {"imei", "phoneNumber", "gps"}
Imeis == {"", "123456789012345"}
PhoneNumbers == {"", "01712345678", "01912345678", "02712345678"}

\* the phoneNumber values tried with a source type: every one for a phoneNumber
\* submission, an absent and a present one beside an imei
PhoneNumbersFor(sourceType) ==
    IF sourceType = "phoneNumber" THEN PhoneNumbers
    ELSE IF sourceType = "imei" THEN {"", "01712345678"}
    ELSE {""}

\* the characters of the phone numbers
PhoneChars ==
       "" :> <<>>
    @@ "01712345678" :> <<"0", "1", "7", "1", "2", "3", "4", "5", "6", "7", "8">>
    @@ "01912345678" :> <<"0", "1", "9", "1", "2", "3", "4", "5", "6", "7", "8">>
    @@ "02712345678" :> <<"0", "2", "7", "1", "2", "3", "4", "5", "6", "7", "8">>

Digits == {"0", "1", "2", "3", "4", "5", "6", "7", "8", "9"}

\* validatePhone of the order form: /^01[3-9]\d{8}$/.test(phone)
validatePhone(phone) ==
    LET cs == PhoneChars[phone]
    IN  /\ Len(cs) = 11
        /\ cs[1] = "0"
        /\ cs[2] = "1"
        /\ cs[3] \in Digits \ {"0", "1", "2"}
        /\ \A i \in 4..11 : cs[i] \in Digits
ServiceTypeLists == SeqsUpTo(ServiceKeys, MaxServiceTypes) \cup {NotArray}
DataNeededLists == SeqsUpTo(DataCategories, MaxDataNeeded) \cup {NotArray}

\* sum of the price-table entries of a list of service keys
tableSum(serviceTypes) ==
    IF IsArray(serviceTypes)
    THEN Sum([i \in 1..Len(serviceTypes) |-> priceOf(serviceTypes[i])])
    ELSE 0

\* the entries of a list, each key once, in order of first occurrence
RECURSIVE distinct(_)
distinct(list) ==
    IF list = <<>> THEN <<>>
    ELSE LET front == SubSeq(list, 1, Len(list) - 1)
             last == list[Len(list)]
         IN  IF \E i \in 1..Len(front) : front[i] = last
             THEN distinct(front)
             ELSE Append(distinct(front), last)

\* Declared charges tried for a list: none, the table sum, one less, the table
\* sum with every key counted once, and the table sum plus the base price.
DeclaredCharges(serviceTypes) ==
    IF IsArray(serviceTypes)
    THEN {0, tableSum(serviceTypes), tableSum(serviceTypes) - 1,
          tableSum(distinct(serviceTypes)),
          tableSum(serviceTypes) + servicePrices.imeiToNumber} \ {-1}
    ELSE {0, 1500}

ValidatorBody(sourceType, dataNeeded, serviceTypes, imei, phoneNumber, serviceCharge) ==
    [sourceType |-> sourceType, dataNeeded |-> dataNeeded, serviceTypes |-> serviceTypes,
     imei |-> imei, phoneNumber |-> phoneNumber, serviceCharge |-> serviceCharge,
     paymentMethod |-> "Nagad", trxId |-> TrxId,
     status |-> "", moderatorNotes |-> ""]

\* status and moderatorNotes a client may put into its body ("" for none)
ClientStatuses == {[status |-> "", moderatorNotes |-> ""],
                   [status |-> "Completed", moderatorNotes |-> "done"]}

ShortTrxId == <<"T", "R", "X", "1", "2", "3", "4">>
TrxIds == {<<>>, ShortTrxId, TrxId}
PaymentMethods == {"", "Nagad", "Crypto", "Cash"}

\* The example submission (imei, [number], [imeiToNumber], 1500) with every
\* payment method and trxId, with and without a client-supplied status.
PaymentBodies ==
    {[sourceType |-> "imei", dataNeeded |-> <<"number">>,
      serviceTypes |-> <<"imeiToNumber">>, imei |-> "123456789012345",
      phoneNumber |-> "", serviceCharge |-> 1500,
      paymentMethod |-> paymentMethod, trxId |-> trxId,
      status |-> extra.status, moderatorNotes |-> extra.moderatorNotes] :
        paymentMethod \in PaymentMethods, trxId \in TrxIds, extra \in ClientStatuses}

ValidatorNext ==
    \/ /\ response = NoResponse
       /\ nextId = 1
       /\ \E sourceType \in SourceTypes, dataNeeded \in DataNeededLists,
             serviceTypes \in ServiceTypeLists, imei \in Imeis :
            \E phoneNumber \in PhoneNumbersFor(sourceType) :
            \E serviceCharge \in DeclaredCharges(serviceTypes) :
               LET body == ValidatorBody(sourceType, dataNeeded, serviceTypes,
                                         imei, phoneNumber, serviceCharge)
               IN  SubmitRequest("u1", body) \/ SubmitService("u1", body)
    \/ /\ response = NoResponse
       /\ nextId = 1
       /\ \E body \in PaymentBodies :
             SubmitRequest("u1", body) \/ SubmitService("u1", body)
    \/ ClientReceive

SpecValidator == Init /\ [][ValidatorNext]_vars

(***************************************************************************)
(* Specification of the request lifecycle: submissions of well-formed     *)
(* bodies, deliveries handled one at a time, moderator updates, deletes.  *)
(***************************************************************************)
LifecycleBodies ==
    {[sourceType |-> "imei", dataNeeded |-> <<"number">>,
      serviceTypes |-> <<"imeiToNumber">>, imei |-> "123456789012345",
      phoneNumber |-> "", serviceCharge |-> 1500,
      paymentMethod |-> "Nagad", trxId |-> TrxId,
      status |-> "", moderatorNotes |-> ""],
     [sourceType |-> "imei", dataNeeded |-> <<"number", "location">>,
      serviceTypes |-> <<"imeiToNumber", "numberToLocation">>, imei |-> "123456789012345",
      phoneNumber |-> "", serviceCharge |-> 2500,
      paymentMethod |-> "Nagad", trxId |-> TrxId,
      status |-> "", moderatorNotes |-> ""]}

DeliveredTypes == {"", "number", "location"}
Notes == {"", "checked"}
\* req.body.status of a moderator update: the four statuses and one that is none
StatusInputs == {"Pending", "Approved", "Rejected", "Completed", "Done"}

\* req.body of a moderator update: every status with a note, and one without
UpdateInputs ==
    {[status |-> status, moderatorNotes |-> "checked"] : status \in StatusInputs}
    \cup {[status |-> "Pending", moderatorNotes |-> ""]}

\* req.body of a deliver call: every type for every request id, and one body
\* for each missing field (0 and "" stand for a missing field)
DeliverInputs ==
    {[requestId |-> requestId, dataType |-> dataType, dataContent |-> "data"] :
        requestId \in RequestIds, dataType \in DeliveredTypes \ {""}}
    \cup {[requestId |-> 0, dataType |-> "number", dataContent |-> "data"],
          [requestId |-> 1, dataType |-> "", dataContent |-> "data"],
          [requestId |-> 1, dataType |-> "number", dataContent |-> ""]}

Next ==
    \/ \E body \in LifecycleBodies : SubmitService("u1", body)
    \/ \E body \in DeliverInputs :
          DeliverData("m1", body.requestId, body.dataType, body.dataContent)
    \/ \E requestId \in RequestIds, body \in UpdateInputs :
          UpdateStatus(requestId, body.status, body.moderatorNotes)
    \/ \E requestId \in RequestIds : DeleteRequest(requestId)

Spec == Init /\ [][Next]_vars

(***************************************************************************)
(* Specification of the ledger: the lifecycle routes together with the    *)
(* read of the delivery records of a request.                             *)
(***************************************************************************)
LedgerNext ==
    \/ \E body \in LifecycleBodies : SubmitService("u1", body)
    \/ \E requestId \in RequestIds, dataType \in DeliveredTypes \ {""} :
          DeliverData("m1", requestId, dataType, "data")
    \/ \E requestId \in RequestIds, status \in validStatuses :
          UpdateStatus(requestId, status, "checked")
    \/ \E requestId \in RequestIds : DeleteRequest(requestId)
    \/ \E requestId \in RequestIds : GetDeliveredData(requestId)

SpecLedger == Init /\ [][LedgerNext]_vars

(***************************************************************************)
(* The order form of the user dashboard: the checkboxes                   *)
(* updateServiceSelection renders, the charge updateServiceChargeDisplay  *)
(* shows and the payload validateAndPrepareData builds.                   *)
(***************************************************************************)
\* values of the dataNeeded checkboxes in document order; the imei form has the
\* 'number' box first, checked and disabled
OptionalBoxes == <<"location", "NID", "callList3Months", "callList6Months">>
Boxes(sourceType) ==
    IF sourceType = "imei" THEN <<"number">> \o OptionalBoxes
    ELSE IF sourceType = "phoneNumber" THEN OptionalBoxes
    ELSE <<>>

\* String.prototype.toUpperCase on one character: the first letters that occur
UpperChar(c) ==
    LET low == "n" :> "N" @@ "l" :> "L" @@ "c" :> "C"
    IN  IF c \in DOMAIN low THEN low[c] ELSE c

\* the string literal with the given characters
fromChars(cs) == CHOOSE str \in DOMAIN Chars : Chars[str] = cs

\* `numberTo${value.charAt(0).toUpperCase() + value.slice(1)}`
serviceKeyOf(value) ==
    fromChars(Chars["numberTo"] \o <<UpperChar(Chars[value][1])>> \o Tail(Chars[value]))

\* querySelectorAll('input[name="dataNeeded"]:checked') mapped to the values
selectedDataNeeded(form) ==
    SelectSeq(Boxes(form.sourceType),
              LAMBDA value : value \in form.checked \/ value = "number")

\* Number.prototype.toFixed(2) and parseFloat on the amounts of the form:
\* whole units and hundredths
toFixed(amount) == [units |-> amount, hundredths |-> 0]
parseFloat(text) == text.units

\* updateServiceChargeDisplay: the value left in the service charge field
updateServiceChargeDisplay(form) ==
    LET values == selectedDataNeeded(form)
        prices == [i \in 1..Len(values) |-> priceOf(serviceKeyOf(values[i]))]
    IN  IF form.sourceType = "imei"
        THEN toFixed(servicePrices.imeiToNumber + Sum(prices))
        ELSE IF form.sourceType = "phoneNumber"
        THEN toFixed(Sum(prices))
        ELSE toFixed(0)

\* validateAndPrepareData: the payload, or ok = FALSE when it throws
validateAndPrepareData(form) ==
    LET values == selectedDataNeeded(form)
        keys == [i \in 1..Len(values) |-> serviceKeyOf(values[i])]
        serviceTypesForBackend ==
            IF form.sourceType = "imei" THEN <<"imeiToNumber">> \o keys ELSE keys
        serviceCharge == parseFloat(updateServiceChargeDisplay(form))
        thrown == [ok |-> FALSE, body |-> NoRequest]
    IN  IF form.sourceType = "" THEN thrown
        ELSE IF form.sourceType = "imei" /\ form.imei = "" THEN thrown
        ELSE IF form.sourceType = "phoneNumber" /\ ~validatePhone(form.phoneNumber) THEN thrown
        ELSE IF Len(values) = 0 THEN thrown
        ELSE IF Len(serviceTypesForBackend) = 0 THEN thrown
        ELSE IF form.method = "" THEN thrown
        ELSE IF form.trxid = <<>> \/ Len(form.trxid) < 8 THEN thrown
        ELSE IF serviceCharge <= 0 THEN thrown
        ELSE [ok |-> TRUE,
              body |-> [sourceType |-> form.sourceType,
                        dataNeeded |-> values,
                        serviceTypes |-> serviceTypesForBackend,
                        imei |-> IF form.sourceType = "imei" THEN form.imei ELSE "",
                        phoneNumber |-> IF form.sourceType = "phoneNumber"
                                        THEN form.phoneNumber ELSE "",
                        serviceCharge |-> serviceCharge,
                        paymentMethod |-> form.method,
                        trxId |-> form.trxid,
                        status |-> "", moderatorNotes |-> ""]]

\* the submit listener of the form: nothing is sent when the preparation throws
FormSubmit(user, form) ==
    /\ validateAndPrepareData(form).ok
    /\ SubmitService(user, validateAndPrepareData(form).body)

(***************************************************************************)
(* Specification of the order form: the owner submits what the form lets  *)
(* through, a moderator delivers, updates and deletes.                    *)
(***************************************************************************)
\* states of the form: source type, checked optional boxes, identifier fields
\* (the field of the other source type is hidden and empty), payment gateway
\* and TRX ID
Forms ==
    {[sourceType |-> sourceType, checked |-> checked,
      imei |-> IF sourceType = "imei" THEN identifier.imei ELSE "",
      phoneNumber |-> IF sourceType = "phoneNumber" THEN identifier.phoneNumber ELSE "",
      method |-> method, trxid |-> trxid] :
        sourceType \in {"", "imei", "phoneNumber"},
        checked \in SUBSET Range(OptionalBoxes),
        identifier \in {[imei |-> "", phoneNumber |-> ""],
                        [imei |-> "123456789012345", phoneNumber |-> "01712345678"],
                        [imei |-> "123456789012345", phoneNumber |-> "02712345678"]},
        method \in {"", "Nagad"},
        trxid \in TrxIds}

FormNext ==
    \/ \E form \in Forms : FormSubmit("u1", form)
    \/ ClientReceive
    \/ \E body \in DeliverInputs :
          DeliverData("m1", body.requestId, body.dataType, body.dataContent)
    \/ \E id \in RequestIds, body \in UpdateInputs :
          UpdateStatus(id, body.status, body.moderatorNotes)
    \/ \E id \in RequestIds : DeleteRequest(id)

SpecForm == Init /\ [][FormNext]_vars

(***************************************************************************)
(* Specification of the frontends: the process starts, the dashboard and  *)
(* the moderator panel open, lose and reopen their push channels.         *)
(***************************************************************************)
ClientNext ==
    \/ ListenFirst
    \/ ListenSecond
    \/ \E f \in Frontends : Login(f)
    \/ \E f \in Frontends : Logout(f)
    \/ \E f \in Frontends, k \in SocketIds : SocketOpen(f, k)
    \/ \E f \in Frontends, k \in SocketIds : SocketMessage(f, k)
    \/ \E f \in Frontends, k \in SocketIds : SocketClose(f, k)
    \/ \E f \in Frontends : TimerFires(f)
    \/ \E f \in Frontends, status \in {200, 401} : FetchReturns(f, status)

SpecClient == Init /\ [][ClientNext]_vars

(***************************************************************************)
(* Specification of the authenticated routes: every route is called with  *)
(* every Authorization header.                                            *)
(***************************************************************************)
AuthNext ==
    \/ \E token \in HttpTokens, userID \in UserIdHeaders, body \in LifecycleBodies :
          UserSubmitService(token, userID, body)
    \/ \E token \in HttpTokens, requestId \in RequestIds,
          dataType \in DeliveredTypes \ {""} :
          AdminDeliverData(token, requestId, dataType, "data")
    \/ \E token \in HttpTokens, requestId \in RequestIds, status \in {"Pending", "Rejected"} :
          AdminUpdateStatus(token, requestId, status, "checked")
    \/ \E token \in HttpTokens, requestId \in RequestIds : AdminDeleteRequest(token, requestId)
    \/ \E token \in HttpTokens, requestId \in RequestIds :
          AdminGetDeliveredData(token, requestId)

SpecAuth == Init /\ [][AuthNext]_vars

(***************************************************************************)
(* Specification of interleaved deliveries: two deliver handlers run      *)
(* against the one request of the store; no moderator update, no delete.  *)
(***************************************************************************)
RaceNext ==
    \/ \E body \in LifecycleBodies : nextId = 1 /\ SubmitService("u1", body)
    \/ \E h \in HandlerIds, dataType \in DeliveredTypes \ {""} :
          DeliverFindRequest(h, "m1", 1, dataType)
    \/ \E h \in HandlerIds : DeliverSaveData(h)
    \/ \E h \in HandlerIds : DeliverFindData(h)
    \/ \E h \in HandlerIds : DeliverSaveRequest(h)

SpecRace == Init /\ [][RaceNext]_vars

(***************************************************************************)
(* Specification of deliveries interleaved with moderator updates: the    *)
(* deliver handlers of SpecRace and the status update of the one request. *)
(***************************************************************************)
OverrideNext ==
    \/ \E body \in LifecycleBodies : nextId = 1 /\ SubmitService("u1", body)
    \/ \E h \in HandlerIds, dataType \in DeliveredTypes \ {""} :
          DeliverFindRequest(h, "m1", 1, dataType)
    \/ \E h \in HandlerIds : DeliverSaveData(h)
    \/ \E h \in HandlerIds : DeliverFindData(h)
    \/ \E h \in HandlerIds : DeliverSaveRequest(h)
    \/ \E status \in {"Pending", "Rejected"} : UpdateStatus(1, status, "checked")

SpecOverride == Init /\ [][OverrideNext]_vars

(***************************************************************************)
(* Specification of the connection registry.                              *)
(***************************************************************************)
RegistryNext ==
    \/ \E c \in Channels : Connect(c)
    \/ \E c \in Channels, message \in Messages : OnMessage(c, message)
    \/ \E c \in Channels : Close(c)

SpecRegistry == Init /\ [][RegistryNext]_vars

(***************************************************************************)
(* Specification of the push of lifecycle events: one user with one       *)
(* channel, the user's request, deliveries and moderator updates.         *)
(***************************************************************************)
NotifyNext ==
    \/ Connect(1)
    \/ AuthMessage(1, [kind |-> "user", id |-> "u1"], "u1")
    \/ Close(1)
    \/ \E body \in LifecycleBodies : nextId = 1 /\ SubmitService("u1", body)
    \/ \E dataType \in DeliveredTypes \ {""} : DeliverData("m1", 1, dataType, "data")
    \/ \E status \in validStatuses : UpdateStatus(1, status, "checked")

SpecNotify == Init /\ [][NotifyNext]_vars

(***************************************************************************)
(* Properties of the validator, checked under SpecValidator.              *)
(***************************************************************************)
NoRepeat(list) == \A i, j \in 1..Len(list) : list[i] = list[j] => i = j

Stored == {id \in RequestIds : requests[id] # NoRequest}

ChargeMismatch == Reject(400, "Service charge mismatch")

\* C1: a submission whose serviceTypes has no repeated entry and whose declared
\* charge differs from the table sum of those entries is never accepted, on
\* either endpoint: every stored request with a repetition-free serviceTypes has
\* the table sum as its charge, and the charge-mismatch rejection is a 400 that
\* stores nothing.
C1_MismatchedChargeNeverAccepted ==
    /\ \A id \in Stored :
          NoRepeat(requests[id].serviceTypes)
             => requests[id].serviceCharge = tableSum(requests[id].serviceTypes)
    /\ response.message = "Service charge mismatch"
          => (response.code = 400 /\ Stored = {})

\* C1 witness: a submission was answered with the charge-mismatch rejection and
\* nothing is stored.
C1_Witness == response = ChargeMismatch /\ Stored = {} /\ nextId = 1

\* C2: every stored request has serviceCharge equal to the table sum over its
\* stored serviceTypes, repeated keys included.
C2_StoredChargeIsTableSum ==
    \A id \in Stored : requests[id].serviceCharge = tableSum(requests[id].serviceTypes)

\* the image of a service list under "strip numberTo, lower-case", base key left out
dataKeyImage(serviceTypes) ==
    {dataKey[serviceTypes[i]] :
        i \in {j \in 1..Len(serviceTypes) : serviceTypes[j] # "imeiToNumber"}}

\* C3: the stored dataNeeded, as a set, is exactly the image of the stored
\* serviceTypes (without imeiToNumber) under the strip-and-lower-case map, plus
\* number when sourceType is imei.
C3_DataNeededIsImageOfServiceTypes ==
    \A id \in Stored :
        {Chars[requests[id].dataNeeded[k]] : k \in 1..Len(requests[id].dataNeeded)}
          = dataKeyImage(requests[id].serviceTypes)
              \cup (IF requests[id].sourceType = "imei" THEN {Chars["number"]} ELSE {})

NonBaseKeys ==
    {"numberToLocation", "numberToNID", "numberToCallList3Months", "numberToCallList6Months"}

\* the data category a non-base service key stands for
categoryOf ==
    [numberToLocation |-> "location", numberToNID |-> "nid",
     numberToCallList3Months |-> "callList3Months",
     numberToCallList6Months |-> "callList6Months"]

\* Well-formed selections: imeiToNumber plus distinct non-base keys for imei,
\* distinct non-base keys for phoneNumber, with the matching dataNeeded and charge.
WellFormedBodies ==
    {[sourceType |-> "imei",
      dataNeeded |-> <<"number">> \o [i \in 1..Len(extra) |-> categoryOf[extra[i]]],
      serviceTypes |-> <<"imeiToNumber">> \o extra,
      imei |-> "123456789012345", phoneNumber |-> "",
      serviceCharge |-> tableSum(<<"imeiToNumber">> \o extra),
      paymentMethod |-> "Nagad", trxId |-> TrxId,
      status |-> "", moderatorNotes |-> ""] :
        extra \in {l \in SeqsUpTo(NonBaseKeys, MaxServiceTypes - 1) : NoRepeat(l)}}
    \cup
    {[sourceType |-> "phoneNumber",
      dataNeeded |-> [i \in 1..Len(keys) |-> categoryOf[keys[i]]],
      serviceTypes |-> keys,
      imei |-> "", phoneNumber |-> "01712345678",
      serviceCharge |-> tableSum(keys),
      paymentMethod |-> "Nagad", trxId |-> TrxId,
      status |-> "", moderatorNotes |-> ""] :
        keys \in {l \in SeqsUpTo(NonBaseKeys, MaxServiceTypes) : NoRepeat(l) /\ l # <<>>}}

\* C4: every well-formed selection, those with a call-list key included, is
\* accepted by the validator and stored.
C4_WellFormedSelectionAccepted ==
    [][\A body \in WellFormedBodies :
          SubmitService("u1", body) => response'.code = 201]_vars

\* C14: every stored request with sourceType phoneNumber has a non-empty
\* phoneNumber that passes the pattern "01, third digit 3-9, 11 digits".
C14_StoredPhoneNumberMatchesPattern ==
    \A id \in Stored :
        requests[id].sourceType = "phoneNumber"
           => /\ requests[id].phoneNumber # ""
              /\ validatePhone(requests[id].phoneNumber)

\* C16: every stored request with sourceType imei has a non-empty imei, has
\* imeiToNumber among its serviceTypes and a charge of at least 1500, the price
\* of imeiToNumber; the rejections for a missing imei and for a missing
\* imeiToNumber are 400s that store nothing.
C16_ImeiRequestHasBaseService ==
    /\ \A id \in Stored :
          requests[id].sourceType = "imei"
             => /\ requests[id].imei # ""
                /\ \E i \in 1..Len(requests[id].serviceTypes) :
                      requests[id].serviceTypes[i] = "imeiToNumber"
                /\ requests[id].serviceCharge >= 1500
                /\ servicePrices.imeiToNumber = 1500
    /\ response.message \in {"IMEI is required for IMEI tracking",
                              "IMEI tracking must include imeiToNumber service"}
          => (response.code = 400 /\ Stored = {})

\* C16 witness: an imei submission without imeiToNumber was rejected and nothing
\* is stored.
C16_Witness ==
    /\ response = Reject(400, "IMEI tracking must include imeiToNumber service")
    /\ Stored = {}
    /\ nextId = 1

\* C18: no stored request has a trxId shorter than 8 characters (an absent one
\* has none) or lacks a paymentMethod; the rejection of a short trxId stores
\* nothing.
C18_StoredRequestHasPayment ==
    /\ \A id \in Stored :
          /\ Len(requests[id].trxId) >= 8
          /\ requests[id].paymentMethod # ""
    /\ response.message = "validation failed: trxId"
          => (response.code \notin {200, 201} /\ Stored = {})

\* C18 witness: a submission with a trxId of 7 characters was rejected by the
\* schema validation of save() and nothing is stored.
C18_Witness ==
    /\ response = Reject(500, "validation failed: trxId")
    /\ Stored = {}
    /\ nextId = 1

\* C19: every stored request has exactly one of imei and phoneNumber populated,
\* the one its sourceType selects.
C19_ExactlyOneIdentifierStored ==
    \A id \in Stored :
        /\ requests[id].sourceType = "imei"
              => (requests[id].imei # "" /\ requests[id].phoneNumber = "")
        /\ requests[id].sourceType = "phoneNumber"
              => (requests[id].phoneNumber # "" /\ requests[id].imei = "")

\* the example submission with a valid payment, with and without a
\* client-supplied status
ExampleBodies ==
    {body \in PaymentBodies : body.paymentMethod = "Nagad" /\ body.trxId = TrxId}

\* C15: a request created by either submit endpoint has status Pending and no
\* moderator notes right after its creation, whatever status or moderatorNotes
\* the body carried; the example (imei, [number], [imeiToNumber], 1500) is
\* accepted and stored with charge 1500 and status Pending.
C15_CreatedRequestIsPending ==
    [][/\ \A id \in RequestIds :
             (requests[id] = NoRequest /\ requests'[id] # NoRequest)
                => /\ requests'[id].status = "Pending"
                   /\ requests'[id].moderatorNotes = ""
       /\ \A body \in ExampleBodies :
             (SubmitService("u1", body) \/ SubmitRequest("u1", body))
                => /\ response'.code = 201
                   /\ requests[nextId] = NoRequest
                   /\ requests'[nextId].serviceCharge = 1500
                   /\ requests'[nextId].status = "Pending"]_vars

\* C15 witness: the example has just been accepted and is stored with charge
\* 1500 and status Pending.
C15_Witness ==
    /\ requests[1] # NoRequest
    /\ requests[1].serviceTypes = <<"imeiToNumber">>
    /\ requests[1].dataNeeded = <<"number">>
    /\ requests[1].serviceCharge = 1500
    /\ requests[1].status = "Pending"
    /\ response = [code |-> 201, message |-> "submitted"]

(***************************************************************************)
(* Properties of the lifecycle, checked under Spec.                       *)
(***************************************************************************)
\* the step appended a ledger record for request id
DeliveryPosted(id) ==
    /\ Len(ledger') = Len(ledger) + 1
    /\ ledger'[Len(ledger')].requestId = id
    /\ requests[id] # NoRequest
    /\ requests'[id] # NoRequest

\* every dataNeeded category of request id has a record in ledger led
Covered(id, led) ==
    \A k \in 1..Len(requests[id].dataNeeded) :
        \E i \in 1..Len(led) :
            led[i].requestId = id /\ led[i].dataType = requests[id].dataNeeded[k]

\* C5 as claimed: a delivery posted against a Pending request leaves it Approved.
C5_PendingDeliveryGivesApproved ==
    [][\A id \in RequestIds :
          (DeliveryPosted(id) /\ requests[id].status = "Pending")
             => requests'[id].status = "Approved"]_vars

\* C5 as amended: a delivery posted against a Pending request leaves it Approved
\* when some dataNeeded category is still without a record, and Completed when the
\* delivery covers the last one.
C5_PendingDeliveryGivesApprovedOrCompleted ==
    [][\A id \in RequestIds :
          (DeliveryPosted(id) /\ requests[id].status = "Pending")
             => requests'[id].status =
                   IF Covered(id, ledger') THEN "Completed" ELSE "Approved"]_vars

\* C5 witness: the first delivery against a two-category request left it Approved.
C5_Witness ==
    /\ requests[1] # NoRequest
    /\ requests[1].status = "Approved"
    /\ requests[1].moderatorNotes = ""
    /\ Len(ledger) = 1
    /\ ledger[1].requestId = 1
    /\ response = [code |-> 201, message |-> "Data delivered"]

\* C6: with deliveries handled one at a time, the status right after a delivery
\* is Completed whenever every dataNeeded category then has a record, whatever
\* the order of the deliveries, and a Pending request whose categories are not
\* all covered becomes Approved.
C6_CoveredMeansCompleted ==
    [][\A id \in RequestIds :
          DeliveryPosted(id) =>
             /\ Covered(id, ledger') => requests'[id].status = "Completed"
             /\ (~Covered(id, ledger') /\ requests[id].status = "Pending")
                   => requests'[id].status = "Approved"]_vars

\* C6 witness: dataNeeded = [number, location], location delivered first, then
\* number, and the request is Completed.
C6_Witness ==
    /\ requests[1] # NoRequest
    /\ requests[1].dataNeeded = <<"number", "location">>
    /\ requests[1].status = "Completed"
    /\ Len(ledger) = 2
    /\ ledger[1] = [requestId |-> 1, dataType |-> "location", deliveredBy |-> "m1"]
    /\ ledger[2] = [requestId |-> 1, dataType |-> "number", deliveredBy |-> "m1"]
    /\ response = [code |-> 201, message |-> "Data delivered"]

\* C10: a delivery posted against a Rejected request leaves it Rejected.
C10_DeliveryKeepsRejected ==
    [][\A id \in RequestIds :
          (DeliveryPosted(id) /\ requests[id].status = "Rejected")
             => requests'[id].status = "Rejected"]_vars

\* C11: a moderator update with one of the four statuses on an existing request
\* sets exactly that status, from every current status and whatever the ledger
\* holds (the ledger is left alone); a status outside the four is answered with
\* 400 and an update of a request that does not exist with 404, both leaving
\* every request unchanged.
C11_UpdateSetsAnyOfFourStatuses ==
    [][\A id \in RequestIds, body \in UpdateInputs :
          UpdateStatus(id, body.status, body.moderatorNotes) =>
             IF body.status \notin {"Pending", "Approved", "Rejected", "Completed"}
             THEN response'.code = 400 /\ requests' = requests
             ELSE IF requests[id] = NoRequest
             THEN response'.code = 404 /\ requests' = requests
             ELSE /\ response'.code = 200
                  /\ requests'[id].status = body.status
                  /\ ledger' = ledger]_vars

\* C11 witness: a request whose ledger covers every category (it had been
\* Completed by delivery) was moved back to Pending by a moderator update.
C11_Witness ==
    /\ requests[1] # NoRequest
    /\ requests[1].status = "Pending"
    /\ Covered(1, ledger)
    /\ response = [code |-> 200, message |-> "updated"]

\* C17: a deliver call with a missing requestId, dataType or dataContent is
\* answered with 400, one on a request that does not exist with 404, and both
\* leave the ledger and every request as they were; a successful call appends
\* exactly one record, for that request and type, carrying the moderator.
C17_DeliverFailsWithoutEffect ==
    [][\A body \in DeliverInputs :
          DeliverData("m1", body.requestId, body.dataType, body.dataContent) =>
             IF body.requestId = 0 \/ body.dataType = "" \/ body.dataContent = ""
             THEN response'.code = 400 /\ ledger' = ledger /\ requests' = requests
             ELSE IF requests[body.requestId] = NoRequest
             THEN response'.code = 404 /\ ledger' = ledger /\ requests' = requests
             ELSE /\ response'.code = 201
                  /\ Len(ledger') = Len(ledger) + 1
                  /\ SubSeq(ledger', 1, Len(ledger)) = ledger
                  /\ ledger'[Len(ledger')].requestId = body.requestId
                  /\ ledger'[Len(ledger')].dataType = body.dataType
                  /\ ledger'[Len(ledger')].deliveredBy = "m1"]_vars

\* C17 witness: a deliver call on the id of a deleted request was answered
\* with 404.
C17_Witness ==
    /\ requests[1] = NoRequest
    /\ nextId = 2
    /\ response = Reject(404, "Location tracker service request not found")

\* the records of request id in a ledger
RecordsOf(id, led) == SelectSeq(led, LAMBDA d : d.requestId = id)

\* C20: no step removes or alters a ledger record (the ledger after the step
\* starts with the ledger before it); deleting a request leaves the ledger as
\* it is; the delivered-data read returns the records of the id whether or not
\* the request still exists; deliver and status update on an id without a
\* request are answered with 404.
C20_LedgerAppendOnly ==
    [][/\ Len(ledger') >= Len(ledger)
       /\ SubSeq(ledger', 1, Len(ledger)) = ledger
       /\ \A id \in RequestIds :
             /\ DeleteRequest(id) => ledger' = ledger
             /\ GetDeliveredData(id) =>
                   /\ response'.code = 200
                   /\ response'.deliveredData = RecordsOf(id, ledger)
             /\ requests[id] = NoRequest =>
                   /\ \A dataType \in DeliveredTypes \ {""} :
                         DeliverData("m1", id, dataType, "data") => response'.code = 404
                   /\ \A status \in {"Pending", "Approved", "Rejected", "Completed"},
                         notes \in Notes :
                         UpdateStatus(id, status, notes) => response'.code = 404]_vars

\* C20 witness: the request was deleted and the read of its id returned the
\* records delivered for it.
C20_Witness ==
    /\ requests[1] = NoRequest
    /\ nextId = 2
    /\ Len(ledger) >= 1
    /\ response.message = "delivered data"
    /\ response.deliveredData = ledger

\* the fields of a request that are fixed at submission
Submitted(request) ==
    [coll |-> request.coll, user |-> request.user, sourceType |-> request.sourceType,
     imei |-> request.imei, phoneNumber |-> request.phoneNumber,
     dataNeeded |-> request.dataNeeded, serviceTypes |-> request.serviceTypes,
     serviceCharge |-> request.serviceCharge, paymentMethod |-> request.paymentMethod,
     trxId |-> request.trxId]

\* C21: no step changes the owner, sourceType, imei, phoneNumber, dataNeeded,
\* serviceTypes, serviceCharge, paymentMethod or trxId of a request that exists
\* before and after it; a step that appends a ledger record for a request
\* leaves its moderatorNotes alone; a request has no moderatorNotes when it is
\* created.
C21_SubmittedFieldsFrozen ==
    [][\A id \in RequestIds :
          /\ (requests[id] # NoRequest /\ requests'[id] # NoRequest)
                => Submitted(requests'[id]) = Submitted(requests[id])
          /\ DeliveryPosted(id)
                => requests'[id].moderatorNotes = requests[id].moderatorNotes
          /\ (requests[id] = NoRequest /\ requests'[id] # NoRequest)
                => requests'[id].moderatorNotes = ""]_vars

\* C21 witness: a request that a moderator update gave notes and a later
\* delivery completed still has the charge and services it was submitted with.
C21_Witness ==
    /\ requests[1] # NoRequest
    /\ requests[1].moderatorNotes = "checked"
    /\ requests[1].status = "Completed"
    /\ requests[1].serviceTypes = <<"imeiToNumber", "numberToLocation">>
    /\ requests[1].serviceCharge = 2500
    /\ requests[1].trxId = TrxId
    /\ response = [code |-> 201, message |-> "Data delivered"]

Delivered == [code |-> 201, message |-> "Data delivered"]

\* C23: a submission to /tracker/submit-request that stores nothing (a field is
\* missing or invalid, trxId shorter than 8 and a paymentMethod outside the
\* allowed values included) is answered 400.
C23_RefusedSubmissionIs400 ==
    [][(requests' = requests /\ response'.code # 400)
          => \A body \in PaymentBodies : ~SubmitRequest("u1", body)]_vars

(***************************************************************************)
(* Property of the order form, checked under SpecForm.                    *)
(***************************************************************************)
\* C25: every payload the order form sends (validateAndPrepareData did not
\* throw, the charge is the one updateServiceChargeDisplay left in the field) is
\* accepted by the validator of submit-service: the call is not answered 400.
C25_FormPayloadAccepted ==
    [][response'.code = 400 => \A form \in Forms : ~FormSubmit("u1", form)]_vars

(***************************************************************************)
(* Properties of the frontends and of the start of the process, checked   *)
(* under SpecClient.                                                      *)
(***************************************************************************)
\* a socket of the frontend that is connecting or open
Live(f) == {k \in SocketIds : clients[f].sockets[k] \in {"connecting", "open"}}

\* C24: when a socket of a frontend opens after an earlier socket of that
\* frontend has closed, a fetch of the full request list is started.
C24_ReopenedChannelRefetchesList ==
    [][\A f \in Frontends, k \in SocketIds :
          (/\ clients[f].sockets[k] = "connecting"
           /\ clients'[f].sockets[k] = "open"
           /\ \E j \in SocketIds : clients[f].sockets[j] = "closed")
             => clients'[f].fetching]_vars

\* C29: the port is bound by one listen call, made on the HTTP server the
\* WebSocket server is attached to; there is no second bind attempt.
C29_PortBoundOnceBySharedServer ==
    /\ listening.attempts <= 1
    /\ listening.owner \in {"none", "server"}
    /\ listening.pc = "done" => listening.owner = "server"

\* C30: the moderator panel has at most one socket connecting or open, none
\* while it is logged out, and no reconnect timer pending beside a socket that
\* is connecting or open.
C30_ModeratorChannelFollowsSession ==
    /\ Cardinality(Live("moderator")) <= 1
    /\ ~clients["moderator"].authenticated => Live("moderator") = {}
    /\ Live("moderator") # {} => clients["moderator"].timers = 0

(***************************************************************************)
(* Properties of the authenticated routes, checked under SpecAuth.        *)
(***************************************************************************)
\* a token that is presented and verifies (signature and expiry)
Verifies(token) == token.kind \in {"user", "admin"}

\* the call is to be refused on a user route: token or header missing, token
\* invalid or expired, identity mismatch, user unknown or not approved
UserAuthFails(token, userID) ==
    \/ token = NoToken \/ userID = ""
    \/ ~Verifies(token)
    \/ token.kind # "user" \/ token.id # userID
    \/ userID \notin {"u1"}

\* the call is to be refused on an admin route: token missing, invalid or
\* expired, or not the token of a superadmin or moderator
AdminAuthFails(token) ==
    \/ token = NoToken
    \/ ~Verifies(token)
    \/ token.kind # "admin" \/ token.id # "m1"

\* C22: a call refused for authentication or authorization reasons is answered
\* with 401 or 403 and changes neither a request nor the ledger, on the user
\* route and on the admin routes.
C22_AuthFailureIs401Or403 ==
    [][/\ \A token \in HttpTokens, userID \in UserIdHeaders, body \in LifecycleBodies :
             (UserAuthFails(token, userID) /\ UserSubmitService(token, userID, body))
                => /\ response'.code \in {401, 403}
                   /\ UNCHANGED <<requests, nextId, ledger>>
       /\ \A token \in HttpTokens, requestId \in RequestIds :
             (/\ AdminAuthFails(token)
              /\ \/ AdminDeleteRequest(token, requestId)
                 \/ AdminGetDeliveredData(token, requestId)
                 \/ \E dataType \in DeliveredTypes \ {""} :
                       AdminDeliverData(token, requestId, dataType, "data")
                 \/ \E status \in {"Pending", "Rejected"} :
                       AdminUpdateStatus(token, requestId, status, "checked"))
                => /\ response'.code \in {401, 403}
                   /\ UNCHANGED <<requests, nextId, ledger>>]_vars

\* C28: the owner of a request, calling the delivered-data read with the
\* session token the dashboard holds, gets 200 and the records of the request;
\* a user who does not own it does not get 200.
C28_OwnerReadsDeliveredData ==
    [][\A id \in RequestIds, u \in {"u1", "u2"} :
          (/\ requests[id] # NoRequest
           /\ AdminGetDeliveredData([kind |-> "user", id |-> u], id))
             => IF requests[id].user = u
                THEN /\ response'.code = 200
                     /\ response'.deliveredData = RecordsOf(id, ledger)
                ELSE response'.code # 200]_vars

\* C12: a delivery of dataType t for a request posted right after a delivery of
\* t for the same request (the previous call was that delivery: its response is
\* the last one and its record the last of the ledger) changes no request, so
\* the status stays what the first of the two left; its only effect is one more
\* ledger record, a copy of the previous one.
C12_RepeatedDeliveryKeepsStatus ==
    [][\A id \in RequestIds :
          (/\ DeliveryPosted(id)
           /\ response = Delivered
           /\ Len(ledger) >= 1
           /\ ledger[Len(ledger)].requestId = id
           /\ ledger'[Len(ledger')].dataType = ledger[Len(ledger)].dataType)
             => /\ requests' = requests
                /\ ledger' = Append(ledger, ledger[Len(ledger)])]_vars

\* C12 witness: number was delivered twice in a row for a request that needs
\* number and location; the request is Approved as after the first delivery.
C12_Witness ==
    /\ requests[1] # NoRequest
    /\ requests[1].dataNeeded = <<"number", "location">>
    /\ requests[1].status = "Approved"
    /\ requests[1].moderatorNotes = ""
    /\ Len(ledger) = 2
    /\ ledger[1] = [requestId |-> 1, dataType |-> "number", deliveredBy |-> "m1"]
    /\ ledger[2] = ledger[1]
    /\ response = Delivered

(***************************************************************************)
(* Property of interleaved deliveries, checked under SpecRace.            *)
(***************************************************************************)
\* C7: when no deliver handler is in flight and the ledger covers every
\* dataNeeded category of the request, the request is Completed, as it is
\* after the same deliveries handled one after the other.
C7_InterleavedDeliveriesComplete ==
    (/\ \A h \in HandlerIds : handlers[h].pc = "idle"
     /\ requests[1] # NoRequest
     /\ Covered(1, ledger))
        => requests[1].status = "Completed"

(***************************************************************************)
(* Property of deliveries interleaved with moderator updates, checked     *)
(* under SpecOverride.                                                    *)
(***************************************************************************)
\* C26: when the stored status of a request has changed between a deliver
\* handler's read of the request and its final save, and the ledger does not
\* cover every dataNeeded category, the final save leaves the stored status as
\* it is.
C26_DeliverySaveKeepsModeratorStatus ==
    [][\A h \in HandlerIds :
          (/\ handlers[h].pc = "read"
           /\ DeliverSaveRequest(h)
           /\ requests[handlers[h].requestId].status # handlers[h].request.status
           /\ ~Covered(handlers[h].requestId, ledger))
             => requests'[handlers[h].requestId].status
                   = requests[handlers[h].requestId].status]_vars

(***************************************************************************)
(* Property of the registry, checked under SpecRegistry.                  *)
(***************************************************************************)
\* C8: an identity that has an open channel authenticated for it is mapped by
\* the registry to an open channel authenticated for it (the claim asks for the
\* most recent one); closing a replaced channel does not remove the entry.
C8_OpenAuthenticatedChannelRegistered ==
    \A c \in Channels :
        (channels[c].state = "open" /\ channels[c].userId # "")
           => /\ channels[c].userId \in DOMAIN activeConnections
              /\ channels[activeConnections[channels[c].userId]].state = "open"

\* the message is a complete auth message: type auth with token and userId
CompleteAuth(message) ==
    message.json /\ message.type = "auth" /\ message.token # NoToken /\ message.userId # ""

\* the token verifies and its identity claim is u
ValidTokenOf(token, u) == token.kind = "user" /\ token.id = u

\* C13: a complete auth message whose token fails verification or whose identity
\* claim differs from the claimed userId closes the channel with code 1008 and
\* leaves the registry as it is; a message that is not valid JSON or not a
\* complete auth message changes neither the registry nor the channel; and an
\* entry u -> c appears in the registry only in a step in which channel c
\* handles an auth message with a valid token whose identity claim is u.
C13_OnlyValidAuthRegisters ==
    [][/\ \A c \in Channels, message \in Messages :
             OnMessage(c, message) =>
                IF ~CompleteAuth(message)
                THEN channels' = channels /\ activeConnections' = activeConnections
                ELSE IF ValidTokenOf(message.token, message.userId)
                THEN message.userId \in DOMAIN activeConnections'
                        /\ activeConnections'[message.userId] = c
                ELSE /\ channels'[c].state = "closing"
                     /\ channels'[c].closeCode = 1008
                     /\ activeConnections' = activeConnections
       /\ \A u \in DOMAIN activeConnections' :
             (u \notin DOMAIN activeConnections \/ activeConnections'[u] # activeConnections[u])
                => \E token \in Tokens :
                      /\ ValidTokenOf(token, u)
                      /\ AuthMessage(activeConnections'[u], token, u)]_vars

\* C13 witness: a channel that presented a token with another identity is being
\* closed with code 1008, it never authenticated, and the registry is empty.
C13_Witness ==
    \E c \in Channels :
        /\ channels[c] = [state |-> "closing", userId |-> "", closeCode |-> 1008]
        /\ DOMAIN activeConnections = {}

\* C27: every registry entry u -> c refers to a channel that has not closed
\* and whose ws.userId is u, so that closing a channel removes every entry that
\* points at it.
C27_EntriesPointAtOwnOpenChannel ==
    \A u \in DOMAIN activeConnections :
        /\ channels[activeConnections[u]].state \in {"open", "closing"}
        /\ channels[activeConnections[u]].userId = u

(***************************************************************************)
(* Property of the push of lifecycle events, checked under SpecNotify.    *)
(***************************************************************************)
\* C9: a step that changes the status of a request whose owner has a registered
\* open channel sends a service-request-updated frame with the request on it.
C9_StatusChangePushedToOwner ==
    [][\A id \in RequestIds :
          (/\ requests[id] # NoRequest
           /\ requests'[id] # NoRequest
           /\ requests'[id].status # requests[id].status
           /\ requests[id].user \in DOMAIN activeConnections
           /\ channels[activeConnections[requests[id].user]].state = "open")
             => sent'[activeConnections[requests[id].user]] =
                   Append(sent[activeConnections[requests[id].user]],
                          [type |-> "service-request-updated", request |-> requests'[id]])]_vars

====
